---------------------------- MODULE Spec2Model ----------------------------
(***************************************************************************)
(* Wavelet-threshold denoising of a 2-D image (wavelet_denoise.py):        *)
(* wavelet_denoise, extract_noise and the part of process_fits_file that   *)
(* calls them, as a state machine over one invocation.                     *)
(*                                                                         *)
(* Numbers.  Every real of the program is held as an integer count of      *)
(* 1/PixelUnit, so that the rational arithmetic of the pipeline            *)
(* (halving in the Haar transform, /0.6745, *0.5^(i-1), *1.5, *2.0) is     *)
(* exact.  The only irrational factor, sqrt(2*ln(N)), is a table of        *)
(* thousandths.  IEEE NaN is the value NaN, absorbing in arithmetic.       *)
(*                                                                         *)
(* Indices.  Python's coeffs[k] is coeffs[k+1] here (sequences start at 1).*)
(* The loop variable i keeps Python's value: i = 1 is the first detail     *)
(* level of the list (the coarsest), i = len(coeffs)-1 the last (finest).  *)
(*                                                                         *)
(* Basis.  The transform is PyWavelets' 'haar' with its default            *)
(* 'symmetric' boundary extension, the one basis whose 2-D coefficients    *)
(* are rational.                                                           *)
(***************************************************************************)
EXTENDS Integers, Sequences, FiniteSets, TLC

\* ------------------------------------------------------------------ bounds
\* Pixels take the values 0..MaxPix (times PixelUnit).
MaxPix == 2
\* levels ranges over 1..MaxLevels.
MaxLevels == 2

\* ---------------------------------------------------------------- numbers
\* 0.6745 = MadDen / MadNum, the divisor of the median in the noise estimate.
MadNum == 10000
MadDen == 6745

RECURSIVE Pow2(_)
Pow2(n) == IF n <= 0 THEN 1 ELSE 2 * Pow2(n - 1)

\* The integer that stands for the real 1.0.
PixelUnit == MadDen * Pow2(3 * MaxLevels + 1)

\* The grid the universal threshold is rounded down to (keeps the inverse
\* transform's halvings exact).
Grid == Pow2(2 * MaxLevels)

\* IEEE not-a-number.
NaN == -2147483647

IsNaN(x) == x = NaN

Abs(x) == IF x < 0 THEN -x ELSE x

\* x + y, x - y and x / 2 in IEEE arithmetic: NaN absorbs.
FAdd(x, y) == IF IsNaN(x) \/ IsNaN(y) THEN NaN ELSE x + y
FSub(x, y) == IF IsNaN(x) \/ IsNaN(y) THEN NaN ELSE x - y
FHalf(x) == IF IsNaN(x) THEN NaN ELSE x \div 2
FNeg(x) == IF IsNaN(x) THEN NaN ELSE -x

\* ---------------------------------------------------------------- arrays
\* A 2-D array is a sequence of rows, each a sequence of numbers.
Rows(m) == Len(m)
Cols(m) == IF Len(m) = 0 THEN 0 ELSE Len(m[1])
Shape(m) == <<Rows(m), Cols(m)>>
Size(m) == Rows(m) * Cols(m)

RECURSIVE Flatten(_)
Flatten(m) == IF m = <<>> THEN <<>> ELSE Head(m) \o Flatten(Tail(m))

\* m[:h, :w]
TopLeft(m, h, w) ==
    LET hh == IF h < Rows(m) THEN h ELSE Rows(m)
        ww == IF w < Cols(m) THEN w ELSE Cols(m)
    IN  [r \in 1..hh |-> [c \in 1..ww |-> m[r][c]]]

\* ------------------------------------------------------------ PyWavelets
\* Sample (r, c) of m under 'symmetric' extension: past the last row or
\* column the edge sample repeats.
PadAt(m, r, c) ==
    m[IF r > Rows(m) THEN Rows(m) ELSE r][IF c > Cols(m) THEN Cols(m) ELSE c]

\* pywt.dwt2(m, 'haar'): (cA, (cH, cV, cD)), each ceil(H/2) x ceil(W/2).
dwt2(m) ==
    LET h == (Rows(m) + 1) \div 2
        w == (Cols(m) + 1) \div 2
        a(r, c) == PadAt(m, 2 * r - 1, 2 * c - 1)
        b(r, c) == PadAt(m, 2 * r - 1, 2 * c)
        cc(r, c) == PadAt(m, 2 * r, 2 * c - 1)
        d(r, c) == PadAt(m, 2 * r, 2 * c)
        band(sb, sc, sd) ==
            [r \in 1..h |-> [c \in 1..w |->
                (a(r, c) + sb * b(r, c) + sc * cc(r, c) + sd * d(r, c)) \div 2]]
    IN  <<band(1, 1, 1), <<band(1, -1, -1), band(-1, 1, -1), band(-1, -1, 1)>>>>

\* pywt.idwt2((a, (cH, cV, cD)), 'haar'): 2h x 2w.
idwt2(a, det) ==
    LET h == Rows(a)
        w == Cols(a)
        val(r, c) ==
            LET i == (r + 1) \div 2
                j == (c + 1) \div 2
                top == r % 2 = 1
                left == c % 2 = 1
                H == IF top THEN det[1][i][j] ELSE FNeg(det[1][i][j])
                V == IF left THEN det[2][i][j] ELSE FNeg(det[2][i][j])
                D == IF top = left THEN det[3][i][j] ELSE FNeg(det[3][i][j])
            IN  FHalf(FAdd(FAdd(a[i][j], H), FAdd(V, D)))
    IN  [r \in 1..(2 * h) |-> [c \in 1..(2 * w) |-> val(r, c)]]

\* pywt.wavedec2(m, 'haar', level=n): [cA_n, details_n, ..., details_1].
RECURSIVE wavedec2(_, _)
wavedec2(m, n) ==
    IF n <= 0 THEN <<m>>
    ELSE LET one == dwt2(m) IN wavedec2(one[1], n - 1) \o <<one[2]>>

\* waverec2 drops the last row (column) of the running approximation when it
\* is one longer than the next level's details.
Trim(a, det) ==
    TopLeft(a,
            IF Rows(a) = Rows(det[1]) + 1 THEN Rows(a) - 1 ELSE Rows(a),
            IF Cols(a) = Cols(det[1]) + 1 THEN Cols(a) - 1 ELSE Cols(a))

RECURSIVE waverecFrom(_, _, _)
waverecFrom(a, cs, k) ==
    IF k > Len(cs) THEN a
    ELSE waverecFrom(idwt2(Trim(a, cs[k]), cs[k]), cs, k + 1)

\* pywt.waverec2(cs, 'haar')
waverec2(cs) == waverecFrom(cs[1], cs, 2)


\* pywt.threshold(x, value, 'soft') on one coefficient, as PyWavelets computes
\* it: x * clip(1 - value/|x|, min=0).  At x = 0 the quotient is value/0:
\* +inf for value > 0 (clipped to 0, product 0), 0/0 = NaN for value = 0, and
\* -inf for value < 0 (factor +inf, product 0 * inf = NaN).
soft(x, value) ==
    IF x = 0 THEN (IF value > 0 THEN 0 ELSE NaN)
    ELSE IF Abs(x) <= value THEN 0
    ELSE IF x > 0 THEN x - value ELSE x + value

\* pywt.threshold(x, value, 'hard'): where(|x| < value, 0, x).
hard(x, value) == IF Abs(x) < value THEN 0 ELSE x

ThresholdModes == {"soft", "hard"}

\* pywt.threshold(m, value, mode=mode) on an array.
threshold(m, value, md) ==
    [r \in 1..Rows(m) |-> [c \in 1..Cols(m) |->
        IF md = "soft" THEN soft(m[r][c], value) ELSE hard(m[r][c], value)]]

\* pywt.dwt_max_level(min(H, W), filter_len = 2) = floor(log2(min(H, W))).
RECURSIVE Log2(_)
Log2(n) == IF n <= 1 THEN 0 ELSE 1 + Log2(n \div 2)
dwt_max_level(m) == Log2(IF Rows(m) < Cols(m) THEN Rows(m) ELSE Cols(m))

\* ------------------------------------------------------------------ numpy
\* The k-th smallest of a sequence of numbers.
Kth(vals, k) ==
    CHOOSE x \in {vals[n] : n \in DOMAIN vals} :
        /\ Cardinality({n \in DOMAIN vals : vals[n] < x}) < k
        /\ k <= Cardinality({n \in DOMAIN vals : vals[n] <= x})

AbsAll(vals) == [n \in DOMAIN vals |-> Abs(vals[n])]

\* 2 * np.median(vals): the middle value twice, or the sum of the two middle
\* values.
Median2(vals) ==
    LET n == Len(vals)
    IN  IF n % 2 = 1 THEN 2 * Kth(vals, (n + 1) \div 2)
        ELSE Kth(vals, n \div 2) + Kth(vals, n \div 2 + 1)

\* np.median(np.abs(vals)) / 0.6745
MadSigma(vals) == (Median2(AbsAll(vals)) \div (2 * MadDen)) * MadNum

\* floor(1000 * sqrt(2 * ln(n))) for the pixel counts of the model.
Sqrt2LnMilli(n) ==
    CASE n = 1 -> 0 [] n = 2 -> 1177 [] n = 3 -> 1482 [] n = 4 -> 1665
      [] n = 5 -> 1794 [] n = 6 -> 1893 [] n = 7 -> 1972 [] n = 8 -> 2039
      [] n = 9 -> 2096 [] n = 10 -> 2145 [] n = 11 -> 2189 [] n = 12 -> 2229
      [] n = 13 -> 2264 [] n = 14 -> 2297 [] n = 15 -> 2327 [] n = 16 -> 2354

\* ------------------------------------------------------- wavelet_denoise
\* A variant of GlobalSigma that reads the diagonal array alone
\* (coeffs[-1][-1]).
GlobalSigma_DiagonalOnly(cs) == MadSigma(Flatten(cs[Len(cs)][3]))

\* sigma of line 39: the median of |c| over the three detail arrays of
\* coeffs[-1], the last entry of the one-level decomposition.
GlobalSigma(cs) ==
    MadSigma(Flatten(cs[Len(cs)][1]) \o Flatten(cs[Len(cs)][2])
             \o Flatten(cs[Len(cs)][3]))

\* local_sigma of line 63
LocalSigma(detail) == MadSigma(Flatten(detail))

\* A variant of AdaptiveThreshold whose level factor is 0.5^i.
AdaptiveThreshold_HalfPerLevel(local_sigma, tf, i, j) ==
    LET level_scaled == ((local_sigma \div 10) * tf) \div Pow2(i)
    IN  IF j = 2 THEN level_scaled * 2 ELSE (level_scaled \div 2) * 3

\* A variant of AdaptiveThreshold that divides by threshold_factor.
AdaptiveThreshold_Inverse(local_sigma, tf, i, j) ==
    LET level_scaled == ((local_sigma * 10) \div tf) \div Pow2(i - 1)
    IN  IF j = 2 THEN level_scaled * 2 ELSE (level_scaled \div 2) * 3

\* lines 57, 66-69: local_sigma * threshold_factor * 0.5^(i-1) * (2.0 if j == 2
\* else 1.5); j is Python's index 0..2 of the orientation, tf is in tenths.
AdaptiveThreshold(local_sigma, tf, i, j) ==
    LET level_scaled == ((local_sigma \div 10) * tf) \div Pow2(i - 1)
    IN  IF j = 2 THEN level_scaled * 2 ELSE (level_scaled \div 2) * 3

\* lines 80 and 88: sigma * threshold_factor * sqrt(2 * log(image.size)),
\* rounded down to the grid.
UniversalThreshold(sig, tf, n) ==
    (((sig \div 10000) * tf * Sqrt2LnMilli(n)) \div Grid) * Grid

\* A variant of LevelThresholds whose adaptive branch scales the global sigma.
LevelThresholds_AdaptiveGlobal(cs, i, meth, tf, sig, n) ==
    IF meth = "adaptive"
    THEN [j \in 1..3 |-> AdaptiveThreshold(sig, tf, i, j - 1)]
    ELSE [j \in 1..3 |-> UniversalThreshold(sig, tf, n)]

\* A variant of LevelThresholds whose last branch leaves threshold_factor out.
LevelThresholds_SureUnscaled(cs, i, meth, tf, sig, n) ==
    IF meth = "adaptive"
    THEN [j \in 1..3 |-> AdaptiveThreshold(LocalSigma(cs[i + 1][j]), tf, i, j - 1)]
    ELSE IF meth = "bayes"
    THEN [j \in 1..3 |-> UniversalThreshold(sig, tf, n)]
    ELSE [j \in 1..3 |-> UniversalThreshold(sig, 10, n)]

\* One pass of the loop body, lines 53-93, for list index i: the three
\* thresholds applied to coeffs[i].
LevelThresholds(cs, i, meth, tf, sig, n) ==
    IF meth = "adaptive"
    THEN [j \in 1..3 |-> AdaptiveThreshold(LocalSigma(cs[i + 1][j]), tf, i, j - 1)]
    ELSE IF meth = "bayes"
    THEN [j \in 1..3 |-> UniversalThreshold(sig, tf, n)]
    ELSE [j \in 1..3 |-> UniversalThreshold(sig, tf, n)]

\* coeffs_thresh[i] of lines 75, 81, 89.
ShrinkLevel(cs, i, ths, md) ==
    [j \in 1..3 |-> threshold(cs[i + 1][j], ths[j], md)]

\* extract_noise, line 109: original - denoised, elementwise.
extract_noise(original, den) ==
    [r \in 1..Rows(original) |-> [c \in 1..Cols(original) |->
        FSub(original[r][c], den[r][c])]]

\* A variant of CropTo that returns the reconstruction as it is.
CropTo_NoCrop(rec, img) == rec

\* Lines 99-103: the reconstruction, cropped to the input's shape when the
\* shapes differ.
CropTo(rec, img) ==
    IF Shape(rec) # Shape(img) THEN TopLeft(rec, Rows(img), Cols(img)) ELSE rec

\* A variant of ShrunkList that shrinks the approximation array as well.
ShrunkList_WithApprox(ct, cs, i, ths, md) ==
    [ct EXCEPT ![1] = threshold(cs[1], ths[1], md),
               ![i + 1] = ShrinkLevel(cs, i, ths, md)]

\* The list entry the loop writes at Python index i.
ShrunkList(ct, cs, i, ths, md) ==
    [ct EXCEPT ![i + 1] = ShrinkLevel(cs, i, ths, md)]

\* sigma=None
None == <<>>

\* Lines 35-39 as a function: the sigma the loop uses.
SigmaUsed(img, sig) ==
    IF sig = None THEN GlobalSigma(wavedec2(img, 1)) ELSE sig[1]

\* Lines 46-93 as a function: coeffs_thresh after the loop.
RECURSIVE ThresholdFrom(_, _, _, _, _, _, _, _)
ThresholdFrom(ct, cs, i, meth, tf, sig, n, md) ==
    IF i >= Len(cs) THEN ct
    ELSE ThresholdFrom(
             ShrunkList(ct, cs, i, LevelThresholds(cs, i, meth, tf, sig, n), md),
             cs, i + 1, meth, tf, sig, n, md)

\* wavelet_denoise as a function of its arguments (a valid wavelet and mode).
Denoise(img, sig, md, meth, lv, tf) ==
    LET cs == wavedec2(img, lv)
    IN  CropTo(waverec2(ThresholdFrom(cs, cs, 1, meth, tf, SigmaUsed(img, sig),
                                      Size(img), md)), img)

\* ------------------------------------------------------------------ state
VARIABLES
    image,              \* the caller's array (image_data of process_fits_file)
    caller_sigma,       \* the sigma process_fits_file passes on (line 143)
    wavelet, sigma, mode, method, levels, threshold_factor,   \* the arguments
    coeffs,             \* the local coeffs (lines 37 and 43)
    coeffs_thresh,      \* the local coeffs_thresh
    i,                  \* the loop variable of line 51
    thresholds,         \* thresholds[i][j]: the value passed to pywt.threshold
                        \* for orientation j of level i
    reconstructed,      \* the result of pywt.waverec2 at line 96
    denoised,           \* the array wavelet_denoise returns
    noise,              \* the array extract_noise returns
    calls,              \* the library calls made so far, in order
    pc                  \* the position in the program

vars == <<image, caller_sigma, wavelet, sigma, mode, method, levels, threshold_factor,
          coeffs, coeffs_thresh, i, thresholds, reconstructed, denoised,
          noise, calls, pc>>

\* The names pywt.Wavelet accepts, as far as the model goes.
KnownWavelets == {"haar"}

\* ------------------------------------------------------------------ inputs
Pixels == {p * PixelUnit : p \in 0..MaxPix}

\* Every h x w image over Pixels.
AllImages(h, w) == [1..h -> [1..w -> Pixels]]

\* The h x w images that are flat but for at most one pixel.
SpikeImages(h, w) ==
    {[r \in 1..h |-> [c \in 1..w |-> IF <<r, c>> = at THEN sp ELSE bg]] :
        bg \in Pixels, sp \in Pixels, at \in (1..h) \X (1..w)}

\* The h x w images that repeat one 2 x 2 tile whose last pixel is 0, whole or
\* with the first pixel blanked.
TiledImages(h, w) ==
    {[r \in 1..h |-> [c \in 1..w |->
        IF blank /\ r = 1 /\ c = 1 THEN 0 ELSE tile[2 - (r % 2)][2 - (c % 2)]]] :
        tile \in {t \in AllImages(2, 2) : t[2][2] = 0}, blank \in BOOLEAN}

Images == SpikeImages(3, 3) \cup SpikeImages(4, 4) \cup TiledImages(4, 4)

SmallImages == SpikeImages(2, 2)

\* threshold_factor in tenths: 0.1 (the default), 1.0 and 3.0.
Factors == {1, 10, 30}

\* A supplied sigma of 1.0, or none.
Sigmas == {None, <<PixelUnit>>}

Modes == {"soft", "hard"}
Methods == {"adaptive", "bayes", "sure"}

\* ----------------------------------------------------------------- actions
\* Lines 35-40: the global estimate, when no sigma was passed.  An unknown
\* wavelet name makes pywt.wavedec2 raise ValueError.
Estimate ==
    /\ pc = "estimate"
    /\ IF sigma # None
       THEN /\ pc' = "decompose"
            /\ UNCHANGED <<sigma, coeffs, calls>>
       ELSE IF wavelet \notin KnownWavelets
       THEN /\ pc' = "error"
            /\ UNCHANGED <<sigma, coeffs, calls>>
       ELSE LET one == wavedec2(image, 1)
            IN  /\ coeffs' = one
                /\ sigma' = <<GlobalSigma(one)>>
                /\ calls' = calls \o <<"wavedec2", "median">>
                /\ pc' = "decompose"
    /\ UNCHANGED <<image, caller_sigma, wavelet, mode, method, levels, threshold_factor,
                   coeffs_thresh, i, thresholds, reconstructed, denoised, noise>>

\* Lines 43-47: the decomposition and the copy of the list.  pywt.wavedec2
\* raises ValueError for an unknown wavelet and for a negative level; a level
\* above dwt_max_level only warns.
Decompose ==
    /\ pc = "decompose"
    /\ IF wavelet \notin KnownWavelets \/ levels < 0
       THEN /\ pc' = "error"
            /\ UNCHANGED <<coeffs, coeffs_thresh, i, calls>>
       ELSE LET cs == wavedec2(image, levels)
            IN  /\ coeffs' = cs
                /\ coeffs_thresh' = cs
                /\ i' = 1
                /\ calls' = Append(calls, "wavedec2")
                /\ pc' = "loop"
    /\ UNCHANGED <<image, caller_sigma, wavelet, sigma, mode, method, levels, threshold_factor,
                   thresholds, reconstructed, denoised, noise>>

\* Lines 51-93, one iteration: the thresholds of level i and the shrunk
\* detail arrays.  pywt.threshold raises ValueError for an unknown mode.
ThresholdLevel ==
    /\ pc = "loop"
    /\ i < Len(coeffs)
    /\ IF mode \notin ThresholdModes
       THEN /\ pc' = "error"
            /\ UNCHANGED <<coeffs_thresh, i, thresholds, calls>>
       ELSE LET ths == LevelThresholds(coeffs, i, method, threshold_factor,
                                       sigma[1], Size(image))
            IN  /\ thresholds' = Append(thresholds, ths)
                /\ coeffs_thresh' = ShrunkList(coeffs_thresh, coeffs, i, ths, mode)
                /\ i' = i + 1
                /\ calls' = Append(calls, "threshold")
                /\ pc' = "loop"
    /\ UNCHANGED <<image, caller_sigma, wavelet, sigma, mode, method, levels, threshold_factor,
                   coeffs, reconstructed, denoised, noise>>

\* Line 96: the inverse transform of the shrunk list.
Reconstruct ==
    /\ pc = "loop"
    /\ i >= Len(coeffs)
    /\ reconstructed' = waverec2(coeffs_thresh)
    /\ calls' = Append(calls, "waverec2")
    /\ pc' = "crop"
    /\ UNCHANGED <<image, caller_sigma, wavelet, sigma, mode, method, levels, threshold_factor,
                   coeffs, coeffs_thresh, i, thresholds, denoised, noise>>

\* Lines 99-103: the crop to the input's shape, and the return.
Crop ==
    /\ pc = "crop"
    /\ denoised' = CropTo(reconstructed, image)
    /\ pc' = "extract"
    /\ UNCHANGED <<image, caller_sigma, wavelet, sigma, mode, method, levels, threshold_factor,
                   coeffs, coeffs_thresh, i, thresholds, reconstructed, noise, calls>>

\* Line 148 of process_fits_file: noise_image = extract_noise(image_data,
\* denoised_image).
ExtractNoise ==
    /\ pc = "extract"
    /\ noise' = extract_noise(image, denoised)
    /\ pc' = "done"
    /\ UNCHANGED <<image, caller_sigma, wavelet, sigma, mode, method, levels, threshold_factor,
                   coeffs, coeffs_thresh, i, thresholds, reconstructed, denoised,
                   calls>>

Next == Estimate \/ Decompose \/ ThresholdLevel \/ Reconstruct \/ Crop \/ ExtractNoise

\* The state at the call of wavelet_denoise.
Start ==
    /\ coeffs = <<>>
    /\ coeffs_thresh = <<>>
    /\ i = 0
    /\ thresholds = <<>>
    /\ reconstructed = <<>>
    /\ denoised = <<>>
    /\ noise = <<>>
    /\ calls = <<>>
    /\ pc = "estimate"

\* Calls with a configuration of the documented kind: a known basis, mode and
\* method, a positive threshold_factor, 1 <= levels <= dwt_max_level(image).
Init ==
    /\ image \in Images
    /\ wavelet \in KnownWavelets
    /\ caller_sigma \in Sigmas
    /\ sigma = caller_sigma
    /\ mode \in Modes
    /\ method \in Methods
    /\ levels \in 1..MaxLevels
    /\ levels <= dwt_max_level(image)
    /\ threshold_factor \in Factors
    /\ Start

Spec == Init /\ [][Next]_vars

\* The values a caller can pass beyond the documented ones.
AnyWavelets == KnownWavelets \cup {"nosuch"}
AnyModes == Modes \cup {"nosuch"}
AnyMethods == Methods \cup {"nosuch"}
AnyFactors == {10, 0, -10}
AnyLevels == (-1)..MaxLevels

\* Calls with any configuration, on small images.
InitAny ==
    /\ image \in SmallImages
    /\ wavelet \in AnyWavelets
    /\ caller_sigma \in Sigmas
    /\ sigma = caller_sigma
    /\ mode \in AnyModes
    /\ method \in AnyMethods
    /\ levels \in AnyLevels
    /\ threshold_factor \in AnyFactors
    /\ Start

SpecAny == InitAny /\ [][Next]_vars

\* ------------------------------------------------------------------ claims
\* IEEE ==: never true of a NaN.
FEq(x, y) == ~IsNaN(x) /\ ~IsNaN(y) /\ x = y

\* The positions of the program after the call of wavedec2 at line 43.
Decomposed == pc \in {"loop", "crop", "extract", "done"}
Returned == pc \in {"extract", "done"}

\* The thresholds recorded so far, as (level, orientation) pairs.
Applied == {<<k, j>> \in (1..Len(thresholds)) \X (1..3) : TRUE}

\* The number of detail coefficients of a coefficient list that are 0.
ZeroCount(tree) ==
    LET last == tree[Len(tree)][1]
    IN  Cardinality(
            {q \in (2..Len(tree)) \X (1..3) \X (1..Rows(last)) \X (1..Cols(last)) :
                /\ q[3] <= Rows(tree[q[1]][q[2]])
                /\ q[4] <= Cols(tree[q[1]][q[2]])
                /\ tree[q[1]][q[2]][q[3]][q[4]] = 0})

\* All the coefficients of the three arrays of one detail level.
LevelValues(det) == Flatten(det[1]) \o Flatten(det[2]) \o Flatten(det[3])

AllEqual(m) == \A r \in 1..Rows(m), c \in 1..Cols(m) : m[r][c] = m[1][1]

\* C1: denoised + noise == original at every pixel, for every image and
\* configuration, once extract_noise has returned.
C1_Additivity ==
    pc = "done" =>
        \A r \in 1..Rows(image), c \in 1..Cols(image) :
            FEq(FAdd(denoised[r][c], noise[r][c]), image[r][c])

\* C2: the returned array has the input's shape (H, W), and so has the noise
\* array, whatever the shape of the inverse transform's result; it is the
\* top-left H x W block of that result.
C2_ShapeInvariance ==
    /\ Returned =>
           /\ Shape(denoised) = Shape(image)
           /\ denoised = TopLeft(reconstructed, Rows(image), Cols(image))
    /\ pc = "done" => Shape(noise) = Shape(image)

\* C2's case: a call has returned whose reconstruction was larger than the
\* input.
C2_Witness ==
    /\ pc = "done"
    /\ Shape(reconstructed) # Shape(image)
    /\ Rows(reconstructed) > Rows(image)

\* C3: at every point after the decomposition the approximation array of
\* coeffs_thresh is the decomposer's, no threshold is recorded for it
\* (thresholds exist for the detail levels 1..i-1 only), and a detail level the
\* loop has not reached is unchanged; the list handed to the reconstructor
\* holds the approximation of the image's decomposition.
C3_ApproxUntouched ==
    /\ Decomposed =>
           /\ coeffs_thresh[1] = coeffs[1]
           /\ Len(coeffs_thresh) = Len(coeffs)
           /\ Len(thresholds) = i - 1
           /\ Len(thresholds) <= Len(coeffs) - 1
           /\ \A k \in 2..Len(coeffs) : k - 1 >= i => coeffs_thresh[k] = coeffs[k]
    /\ pc = "crop" => coeffs_thresh[1] = wavedec2(image, levels)[1]

\* C3's case: the loop has finished and has changed a detail array.
C3_Witness ==
    /\ pc = "crop"
    /\ levels = 2
    /\ coeffs_thresh[2] # coeffs[2]
    /\ coeffs_thresh[3] # coeffs[3]
    /\ coeffs_thresh[1] = coeffs[1]

\* The configurations the documentation calls invalid: an unknown basis, method
\* or mode, levels or threshold_factor not positive, levels above what the
\* image's size allows.
InvalidConfiguration ==
    \/ wavelet \notin KnownWavelets
    \/ method \notin Methods
    \/ mode \notin Modes
    \/ levels <= 0
    \/ threshold_factor <= 0
    \/ levels > dwt_max_level(image)

\* C4: a call with an invalid configuration performs no decomposition (nor any
\* other transform work) and returns no image.
C4_FailFast ==
    InvalidConfiguration =>
        /\ calls = <<>>
        /\ coeffs = <<>>
        /\ denoised = <<>>

\* C5: with method=adaptive the threshold of level i, orientation j is
\* (median|c| / 0.6745) * threshold_factor * 0.5^(i-1) * m over that array's own
\* coefficients c, m = 2.0 for the third (diagonal) array and 1.5 for the other
\* two, and that threshold is the one applied, for every level, when the loop
\* has finished.  (Both sides times 2^(i-1) * 2; threshold_factor is in tenths.)
C5_AdaptiveFormula ==
    (method = "adaptive" /\ pc = "crop") =>
        /\ Len(thresholds) = levels
        /\ \A q \in Applied :
               LET k == q[1]
                   j == q[2]
                   med2 == Median2(AbsAll(Flatten(coeffs[k + 1][j])))
                   m2 == IF j = 3 THEN 4 ELSE 3
               IN  /\ med2 % (2 * MadDen) = 0
                   /\ thresholds[k][j] * Pow2(k - 1) * 2
                          = (med2 \div (2 * MadDen)) * (MadNum \div 10)
                                * threshold_factor * m2
                   /\ coeffs_thresh[k + 1][j]
                          = threshold(coeffs[k + 1][j], thresholds[k][j], mode)

\* C5's case: an adaptive call over two levels with positive thresholds that
\* differ between the levels and between the orientations.
C5_Witness ==
    /\ pc = "crop"
    /\ method = "adaptive"
    /\ Len(thresholds) = 2
    /\ thresholds[1][1] > 0
    /\ thresholds[2][1] > 0
    /\ thresholds[2][3] > thresholds[2][1]
    /\ thresholds[2][1] # thresholds[2][2]

\* C6: with method=adaptive, a larger threshold_factor on the same image,
\* levels and mode leaves at least as many detail coefficients zero (compared
\* when the loop has finished).
C6_Monotonic ==
    (method = "adaptive" /\ pc = "crop") =>
        \A f2 \in Factors :
            f2 >= threshold_factor =>
                ZeroCount(ThresholdFrom(coeffs, coeffs, 1, method, f2, sigma[1],
                                        Size(image), mode))
                    >= ZeroCount(coeffs_thresh)

\* C6's case: an adaptive call for which a larger factor zeroes strictly more.
C6_Witness ==
    /\ pc = "crop"
    /\ method = "adaptive"
    /\ \E f2 \in Factors :
           /\ f2 > threshold_factor
           /\ ZeroCount(ThresholdFrom(coeffs, coeffs, 1, method, f2, sigma[1],
                                      Size(image), mode))
                  > ZeroCount(coeffs_thresh)
           /\ ZeroCount(coeffs_thresh) > ZeroCount(coeffs)
           /\ ZeroCount(coeffs) > 0

\* C7: shrinking with threshold 0 returns the array unchanged, in both modes,
\* also at coefficients equal to 0.
C7_ShrinkIdentityAtZero ==
    \A q \in Applied :
        thresholds[q[1]][q[2]] = 0 =>
            coeffs_thresh[q[1] + 1][q[2]] = coeffs[q[1] + 1][q[2]]

\* C8: with method=adaptive a detail array whose coefficients are all equal
\* gets sigma 0, hence threshold 0, and is left unchanged.
C8_DegenerateSubband ==
    method = "adaptive" =>
        \A q \in Applied :
            AllEqual(coeffs[q[1] + 1][q[2]]) =>
                /\ thresholds[q[1]][q[2]] = 0
                /\ coeffs_thresh[q[1] + 1][q[2]] = coeffs[q[1] + 1][q[2]]

OtherUniversal(meth) == IF meth = "bayes" THEN "sure" ELSE "bayes"

\* C9: with method=bayes or sure every orientation of every level gets the one
\* threshold sigma * threshold_factor * sqrt(2 ln N) (rounded down to the grid),
\* that threshold is the one applied, and the call returns what the same call
\* with the other of the two methods returns.
C9_BayesSureUniform ==
    method \in {"bayes", "sure"} =>
        /\ pc = "crop" => \A q \in Applied :
               LET t == thresholds[q[1]][q[2]]
                   exact == (sigma[1] \div 10000) * threshold_factor
                                * Sqrt2LnMilli(Size(image))
               IN  /\ t <= exact
                   /\ exact < t + Grid
                   /\ t % Grid = 0
                   /\ coeffs_thresh[q[1] + 1][q[2]]
                          = threshold(coeffs[q[1] + 1][q[2]], t, mode)
        /\ pc = "extract" =>
               denoised = Denoise(image, caller_sigma, mode, OtherUniversal(method),
                                  levels, threshold_factor)

\* C9's case: a bayes call over two levels has just returned, with a positive
\* threshold that changed the image.
C9_Witness ==
    /\ pc = "extract"
    /\ method = "bayes"
    /\ Len(thresholds) = 2
    /\ thresholds[1][1] > 0
    /\ denoised # image

\* C10 as stated: without a supplied sigma, the sigma in use is
\* median(|c|)/0.6745 over the coefficients of the coarsest detail level,
\* index 1 of the coefficient list.
C10_SigmaFromCoarsest ==
    (Decomposed /\ caller_sigma = None /\ levels >= 1) =>
        sigma = <<MadSigma(LevelValues(coeffs[2]))>>

NumberOf(name) == Cardinality({k \in 1..Len(calls) : calls[k] = name})

\* C10 amended: without a supplied sigma exactly one global estimate is
\* computed, before any thresholding, as median(|c|)/0.6745 over the detail
\* coefficients of a one-level decomposition of the image, which are those of
\* the finest detail level (the last entry of the coefficient list); with a
\* supplied sigma none is computed and sigma stays the supplied value; the
\* bayes/sure thresholds are computed from that sigma.
C10_SigmaFromFinest ==
    /\ (caller_sigma = None /\ pc \notin {"estimate", "error"}) =>
           /\ pc = "decompose" => sigma = <<MadSigma(LevelValues(dwt2(image)[2]))>>
           /\ NumberOf("median") = 1
           /\ calls[2] = "median"
           /\ \A k \in 1..2 : calls[k] # "threshold"
           /\ (Decomposed /\ levels >= 1) =>
                  sigma = <<MadSigma(LevelValues(coeffs[Len(coeffs)]))>>
    /\ caller_sigma # None =>
           /\ sigma = caller_sigma
           /\ NumberOf("median") = 0
    /\ (method \in {"bayes", "sure"} /\ pc = "crop") =>
           \A q \in Applied :
               thresholds[q[1]][q[2]]
                   = UniversalThreshold(sigma[1], threshold_factor, Size(image))

\* C10's case: a two-level bayes call without a supplied sigma has returned,
\* and the finest and the coarsest level give different estimates.
C10_Witness ==
    /\ pc = "done"
    /\ caller_sigma = None
    /\ method = "bayes"
    /\ levels = 2
    /\ sigma[1] > 0
    /\ MadSigma(LevelValues(coeffs[2])) > 0
    /\ MadSigma(LevelValues(coeffs[2])) # MadSigma(LevelValues(coeffs[3]))

\* The sigma arguments a second call is given: none, the supplied value of the
\* first call, zero and a larger value.
OtherSigmas == Sigmas \cup {<<0>>, <<2 * PixelUnit>>}

\* C11: with method=adaptive the sigma argument has no influence on the result:
\* every applied threshold is computed from the subband's own local_sigma, the
\* level index, the orientation and threshold_factor, and the call returns the
\* array that the same call returns with any other sigma argument, none
\* included (the same values at the same pixels, NaN where the other has NaN).
C11_SigmaIrrelevantForAdaptive ==
    method = "adaptive" =>
        /\ pc = "crop" => \A q \in Applied :
               thresholds[q[1]][q[2]]
                   = AdaptiveThreshold(LocalSigma(coeffs[q[1] + 1][q[2]]),
                                       threshold_factor, q[1], q[2] - 1)
        /\ pc = "extract" => \A s \in OtherSigmas :
               denoised = Denoise(image, s, mode, method, levels, threshold_factor)

\* C11's case: an adaptive call without a supplied sigma has returned, its
\* global estimate is positive, its thresholds changed the image, and the same
\* image under bayes gives different arrays for two sigma arguments.
C11_Witness ==
    /\ pc = "extract"
    /\ method = "adaptive"
    /\ caller_sigma = None
    /\ sigma # None
    /\ sigma[1] > 0
    /\ thresholds[1][1] > 0
    /\ denoised # image
    /\ Denoise(image, <<0>>, mode, "bayes", levels, threshold_factor)
           # Denoise(image, <<2 * PixelUnit>>, mode, "bayes", levels, threshold_factor)

=============================================================================
